---- MODULE Spec2Model ----
(***************************************************************************)
(* GeoJsonWriter (geozero/src/geojson/geojson_writer.rs): the streaming    *)
(* GeoJSON sink, driven by geometry / property / feature events.           *)
(*                                                                         *)
(* The output is a TLA+ string, one character per byte written.  f64       *)
(* values are integers counting tenths (15 is 1.5, 100 is 10.0), which     *)
(* keeps the part of Rust's float formatting the writer's output depends   *)
(* on: 10.0 prints as "10", 1.5 as "1.5", -0.5 as "-0.5".                  *)
(***************************************************************************)
EXTENDS Integers, Sequences, FiniteSets, TLC

VARIABLES
    dims,     \* GeoJsonWriter.dims: the writer's CoordDimensions
    out,      \* GeoJsonWriter.out: every byte written so far
    prev,     \* history: out before the last event
    last,     \* history: the last event delivered, with its arguments
    phase,    \* driver: where the pass stands in the event grammar
    stack,    \* driver: the open geometry structures, innermost last
    nodes,    \* driver: items delivered in the pass (see MaxNodes)
    source,   \* driver: the value described so far (finished parts)
    conforming, \* driver: no inactive channel was offered to the sink
    sink,     \* the output W behind out: when its write_all fails
    log,      \* history: the construction and the calls of a call sequence
    conv,     \* a conversion by ToGdal: its arguments, sink and result
    scan      \* history: a reader's place in the nesting of the bytes of out

vars == <<dims, out, prev, last, phase, stack, nodes, source, conforming,
          sink, log, conv, scan>>

----------------------------------------------------------------------------
(* Bounds of the model *)

\* items of the value one pass describes: its features, properties,
\* geometries (one per begin event) and coordinates
MaxNodes == 4
\* characters in a property name or string value drawn in SpecProp, and in
\* a dataset name drawn in SpecName
MaxStrLen == 2
\* calls made on one writer in a call sequence (SpecCalls, SpecFail)
MaxCalls == 2
\* the latest write_all call, counted from the first, that a failing output
\* fails (SpecFail)
MaxFailAt == 3

----------------------------------------------------------------------------
(* Values *)

None == [some |-> FALSE, v |-> 0]
Some(v) == [some |-> TRUE, v |-> v]

\* CoordDimensions { z, m, t, tm }
CoordDimensions(z, m, t, tm) == [z |-> z, m |-> m, t |-> t, tm |-> tm]
\* CoordDimensions::default(): only X/Y
DefaultDims == CoordDimensions(FALSE, FALSE, FALSE, FALSE)
XyzDims == CoordDimensions(TRUE, FALSE, FALSE, FALSE)

\* ColumnValue: kind, and the payload in the field of its type
IntKinds == {"Byte", "UByte", "Short", "UShort", "Int", "UInt", "Long", "ULong"}
FloatKinds == {"Float", "Double"}
StrKinds == {"String", "DateTime"}
BlobKinds == {"Json", "Binary"}
ColumnValue(kind, n, b, s) == [kind |-> kind, n |-> n, b |-> b, s |-> s]

----------------------------------------------------------------------------
(* Text helpers *)

RECURSIVE Flat(_)
\* the bytes of a sequence of write_all calls, in order
Flat(chunks) == IF chunks = <<>> THEN "" ELSE Head(chunks) \o Flat(Tail(chunks))

Ch(s, i) == SubSeq(s, i, i)

\* {x} of an f64 (Display): the shortest decimal text, no trailing ".0"
FmtF64(v) ==
    LET a == IF v < 0 THEN -v ELSE v
        sign == IF v < 0 THEN "-" ELSE ""
        ip == a \div 10
        fp == a % 10
    IN sign \o ToString(ip) \o (IF fp = 0 THEN "" ELSE "." \o ToString(fp))

\* a scanner of JSON text: inside a string or not, after a backslash or not,
\* the brackets and braces open since the scan began, whether one was closed
\* that was not the innermost open one, and the commas met outside every
\* string and every bracket or brace opened since the scan began
ScanStart ==
    [instr |-> FALSE, esc |-> FALSE, open |-> "", bad |-> FALSE, commas |-> 0]

Closer(c) == IF c = "[" THEN "]" ELSE "}"

ScanStep(st, c) ==
    IF st.esc THEN [st EXCEPT !.esc = FALSE]
    ELSE IF st.instr
    THEN (IF c = "\\" THEN [st EXCEPT !.esc = TRUE]
          ELSE IF c = "\"" THEN [st EXCEPT !.instr = FALSE]
          ELSE st)
    ELSE CASE c = "\"" -> [st EXCEPT !.instr = TRUE]
           [] c \in {"[", "{"} -> [st EXCEPT !.open = @ \o c]
           [] c \in {"]", "}"} ->
                (IF st.open # "" /\ Closer(Ch(st.open, Len(st.open))) = c
                 THEN [st EXCEPT !.open = SubSeq(@, 1, Len(@) - 1)]
                 ELSE [st EXCEPT !.bad = TRUE])
           [] c = "," -> (IF st.open = "" THEN [st EXCEPT !.commas = @ + 1] ELSE st)
           [] OTHER -> st

RECURSIVE ScanRange(_, _, _, _)
\* the scanner after the characters lo..hi of s, read in order (by halves)
ScanRange(s, lo, hi, st) ==
    IF lo > hi THEN st
    ELSE IF lo = hi THEN ScanStep(st, Ch(s, lo))
    ELSE LET mid == (lo + hi) \div 2
             left == ScanRange(s, lo, mid, st)
         IN IF left.commas >= 0 THEN ScanRange(s, mid + 1, hi, left) ELSE left

Scan(s) == ScanRange(s, 1, Len(s), ScanStart)

\* a replace that finds nothing: the text goes out as it is
EscapeQuotes_none(s) == s

RECURSIVE EscapeQuotes(_)
\* str::replace('\"', "\\\""): every quote becomes backslash-quote
EscapeQuotes(s) ==
    IF s = "" THEN ""
    ELSE (IF Head(s) = "\"" THEN "\\\"" ELSE Head(s)) \o EscapeQuotes(Tail(s))

\* {v} of a ColumnValue payload handed to write_num_prop as &dyn Display
DisplayOf(colval) ==
    CASE colval.kind \in IntKinds -> ToString(colval.n)
      [] colval.kind = "Bool" -> (IF colval.b THEN "true" ELSE "false")
      [] colval.kind \in FloatKinds -> FmtF64(colval.n)
      [] OTHER -> colval.s

----------------------------------------------------------------------------
(* The output W: Write.  A Vec<u8> (the tests' output) accepts every write. *)
(* A failing output counts the write_all calls made on it and fails the one *)
(* numbered failat, after taking at most partial bytes of it; the calls     *)
(* after that one, if any are made, succeed.                                *)

VecSink == [failat |-> 0, calls |-> 0, partial |-> 0]
FailingSink(failat, partial) == [failat |-> failat, calls |-> 0, partial |-> partial]

Min(a, b) == IF a < b THEN a ELSE b

----------------------------------------------------------------------------
(* GeoJsonWriter: each operation is the sequence of its write_all calls *)

\* GeoJsonWriter::new(out): the default dimensionality, nothing written
new == [dims |-> DefaultDims, out |-> ""]

\* GeoJsonWriter::with_dims(out, dims)
with_dims(d) == [dims |-> d, out |-> ""]

RECURSIVE Run_unchecked(_, _, _)
\* write_all without the ?: a failed write is dropped and the operation goes
\* on to its next write and returns Ok
Run_unchecked(chunks, snk, o) ==
    IF chunks = <<>> THEN [ok |-> TRUE, sink |-> snk, out |-> o]
    ELSE LET c == Head(chunks)
             counted == [snk EXCEPT !.calls = @ + 1]
         IN IF c = "" THEN Run_unchecked(Tail(chunks), snk, o)
            ELSE IF snk.failat = 0 THEN Run_unchecked(Tail(chunks), snk, o \o c)
            ELSE IF counted.calls = snk.failat
                 THEN Run_unchecked(Tail(chunks), counted,
                          o \o SubSeq(c, 1, Min(snk.partial, Len(c) - 1)))
                 ELSE Run_unchecked(Tail(chunks), counted, o \o c)

RECURSIVE Run_rewind(_, _, _)
\* an operation that starts the output over before it writes
Run_rewind(chunks, snk, o) ==
    IF chunks = <<>> THEN [ok |-> TRUE, sink |-> snk, out |-> ""]
    ELSE LET r == Run_rewind(Tail(chunks), snk, o)
         IN [r EXCEPT !.out = Head(chunks) \o @]

RECURSIVE Run(_, _, _)
\* self.out.write_all(..)? for each write of an operation in turn: the first
\* that fails ends the operation with its error.  write_all of no bytes
\* makes no write.
Run(chunks, snk, o) ==
    IF chunks = <<>> THEN [ok |-> TRUE, sink |-> snk, out |-> o]
    ELSE LET c == Head(chunks)
             counted == [snk EXCEPT !.calls = @ + 1]
         IN IF c = "" THEN Run(Tail(chunks), snk, o)
            ELSE IF snk.failat = 0 THEN Run(Tail(chunks), snk, o \o c)
            ELSE IF counted.calls = snk.failat
                 THEN [ok |-> FALSE, sink |-> counted,
                       out |-> o \o SubSeq(c, 1, Min(snk.partial, Len(c) - 1))]
                 ELSE Run(Tail(chunks), counted, o \o c)

\* comma with the test off by one: the second sibling gets no separator
comma_from_third(idx) == IF idx > 1 THEN <<",">> ELSE <<>>

comma(idx) == IF idx > 0 THEN <<",">> ELSE <<>>

\* dataset_begin that leaves the name member out
dataset_begin_unnamed(name) ==
    <<"{\n\"type\": \"FeatureCollection\"">> \o <<",\n\"features\": [">>

\* dataset_begin that escapes the quotes of the name, as a property's are
dataset_begin_escaped(name) ==
    <<"{\n\"type\": \"FeatureCollection\"">>
    \o (IF name.some THEN <<",\n\"name\": \"", EscapeQuotes(name.v), "\"">>
        ELSE <<>>)
    \o <<",\n\"features\": [">>

\* write!(.., ",\n\"name\": \"{name}\"") hands its three pieces to write_all in turn
dataset_begin(name) ==
    <<"{\n\"type\": \"FeatureCollection\"">>
    \o (IF name.some THEN <<",\n\"name\": \"", name.v, "\"">> ELSE <<>>)
    \o <<",\n\"features\": [">>

dataset_end == <<"]}">>

feature_begin(idx) ==
    (IF idx > 0 THEN <<",\n">> ELSE <<>>) \o <<"{\"type\": \"Feature\"">>

feature_end(idx) == <<"}">>

properties_begin == <<", \"properties\": {">>

properties_end == <<"}">>

geometry_begin == <<", \"geometry\": ">>

geometry_end == <<>>

\* dimensions() that answers the default whatever the writer was made with
dimensions_default == DefaultDims

dimensions == dims

\* xy that puts a space after the comma between x and y
xy_spaced(x, y, idx) ==
    comma(idx) \o <<"[" \o FmtF64(x) \o ", " \o FmtF64(y) \o "]">>

xy(x, y, idx) ==
    comma(idx) \o <<"[" \o FmtF64(x) \o "," \o FmtF64(y) \o "]">>

\* coordinate that also writes the M value it is given
coordinate_with_m(x, y, z, m, t, tm, idx) ==
    comma(idx)
    \o <<"[" \o FmtF64(x) \o "," \o FmtF64(y)>>
    \o (IF z.some THEN <<"," \o FmtF64(z.v)>> ELSE <<>>)
    \o (IF m.some THEN <<"," \o FmtF64(m.v)>> ELSE <<>>)
    \o <<"]">>

coordinate(x, y, z, m, t, tm, idx) ==
    comma(idx)
    \o <<"[" \o FmtF64(x) \o "," \o FmtF64(y)>>
    \o (IF z.some THEN <<"," \o FmtF64(z.v)>> ELSE <<>>)
    \o <<"]">>

\* point_begin that opens an array around the point's coordinate
point_begin_array(idx) ==
    comma(idx) \o <<"{\"type\": \"Point\", \"coordinates\": [">>

point_begin(idx) == comma(idx) \o <<"{\"type\": \"Point\", \"coordinates\": ">>

point_end(idx) == <<"}">>

\* multipoint_begin that opens the array only for a size above 0
multipoint_begin_sized(size, idx) ==
    comma(idx)
    \o <<"{\"type\": \"MultiPoint\", \"coordinates\": ">>
    \o (IF size > 0 THEN <<"[">> ELSE <<>>)

multipoint_begin(size, idx) ==
    comma(idx) \o <<"{\"type\": \"MultiPoint\", \"coordinates\": [">>

multipoint_end(idx) == <<"]}">>

\* linestring_begin that ignores tagged and always writes the header
linestring_begin_always_tagged(tagged, size, idx) ==
    comma(idx) \o <<"{\"type\": \"LineString\", \"coordinates\": [">>

linestring_begin(tagged, size, idx) ==
    comma(idx)
    \o (IF tagged THEN <<"{\"type\": \"LineString\", \"coordinates\": [">>
        ELSE <<"[">>)

linestring_end(tagged, idx) == IF tagged THEN <<"]}">> ELSE <<"]">>

multilinestring_begin(size, idx) ==
    comma(idx) \o <<"{\"type\": \"MultiLineString\", \"coordinates\": [">>

multilinestring_end(idx) == <<"]}">>

polygon_begin(tagged, size, idx) ==
    comma(idx)
    \o (IF tagged THEN <<"{\"type\": \"Polygon\", \"coordinates\": [">>
        ELSE <<"[">>)

\* polygon_end that closes the array and never the object
polygon_end_bare(tagged, idx) == <<"]">>

polygon_end(tagged, idx) == IF tagged THEN <<"]}">> ELSE <<"]">>

multipolygon_begin(size, idx) ==
    comma(idx) \o <<"{\"type\": \"MultiPolygon\", \"coordinates\": [">>

\* multipolygon_end that closes the array and leaves the object open
multipolygon_end_array_only(idx) == <<"]">>

multipolygon_end(idx) == <<"]}">>

geometrycollection_begin(size, idx) ==
    comma(idx) \o <<"{\"type\": \"GeometryCollection\", \"geometries\": [">>

geometrycollection_end(idx) == <<"]}">>

write_num_prop(colname, v) ==
    <<"\"" \o EscapeQuotes(colname) \o "\": " \o v>>

\* write_str_prop that escapes the name and not the value
write_str_prop_raw_value(colname, v) ==
    <<"\"" \o EscapeQuotes(colname) \o "\": \"" \o v \o "\"">>

write_str_prop(colname, v) ==
    <<"\"" \o EscapeQuotes(colname) \o "\": \"" \o EscapeQuotes(v) \o "\"">>

\* the writes of property(i, colname, colval); it returns Ok(false)
property(i, colname, colval) ==
    (IF i > 0 THEN <<", ">> ELSE <<>>)
    \o (CASE colval.kind \in IntKinds \cup {"Bool"} \cup FloatKinds ->
                write_num_prop(colname, DisplayOf(colval))
          [] colval.kind \in StrKinds -> write_str_prop(colname, colval.s)
          [] OTHER -> <<>>)

property_result(i, colname, colval) == FALSE

----------------------------------------------------------------------------
(* The driver: the source of a pass, which delivers events in the grammar *)
(* of the event interfaces and remembers the value it is describing.      *)

NoName == [some |-> FALSE, v |-> ""]
SomeName(s) == [some |-> TRUE, v |-> s]

NoValue == ColumnValue("Binary", 0, FALSE, "")

NoEvent ==
    [op |-> "none", idx |-> 0, tagged |-> FALSE, x |-> 0, y |-> 0,
     z |-> None, m |-> None, t |-> None, tm |-> None,
     name |-> NoName, colname |-> "", colval |-> NoValue, ret |-> FALSE,
     dims |-> DefaultDims, err |-> FALSE]

Ev(op, idx) == [NoEvent EXCEPT !.op = op, !.idx = idx]

\* a node of the source value: a geometry with its children, or a coordinate.
\* An open structure also remembers where in the output its rendering starts
\* (start) and where its children's renderings start (at); the dataset and
\* the property block do so in source.dsat and source.propsat.
Node(kind, tagged, kids) ==
    [kind |-> kind, tagged |-> tagged, kids |-> kids,
     x |-> 0, y |-> 0, z |-> None]
Coord(x, y, z) ==
    [kind |-> "Coord", tagged |-> FALSE, kids |-> <<>>,
     x |-> x, y |-> y, z |-> z]

\* GdalWriter::new(): the default dimensionality and a geometry with nothing
\* built.  The geometry it builds is a kind, its points and whether its
\* end event has closed it.
EmptyGeom == [kind |-> "None", pts |-> <<>>, closed |-> FALSE]
GdalWriterNew == [dims |-> DefaultDims, geom |-> EmptyGeom]

NoResult == [ok |-> FALSE, err |-> 0, geom |-> EmptyGeom]
OkGeom(g) == [ok |-> TRUE, err |-> 0, geom |-> g]
Err(e) == [ok |-> FALSE, err |-> e, geom |-> EmptyGeom]

\* no conversion runs
NoConv ==
    [pc |-> "none", fn |-> "none", self |-> <<>>, failat |-> 0,
     arg |-> DefaultDims, ndim |-> DefaultDims, gdal |-> GdalWriterNew,
     pos |-> 0, driven |-> NoResult, drives |-> 0, ret |-> NoResult]

\* a call of fn on the source self, a line of points, whose event numbered
\* failat (if any) the foreign library fails
Conversion(fn, self, arg, failat) ==
    [NoConv EXCEPT !.pc = "call", !.fn = fn, !.self = self, !.arg = arg,
                   !.failat = failat]

\* to_gdal_ndim(&self, dims), entered
to_gdal_ndim(c, d) == [c EXCEPT !.pc = "new", !.ndim = d]

\* to_gdal that converts with the Z channel active
to_gdal_xyz(c) == to_gdal_ndim(c, XyzDims)

\* to_gdal(&self): self.to_gdal_ndim(CoordDimensions::default())
to_gdal(c) == to_gdal_ndim(c, DefaultDims)

NoSource ==
    [name |-> NoName, feats |-> <<>>, hasprops |-> FALSE, props |-> <<>>,
     geom |-> <<>>, dsat |-> 0, propsat |-> 0]

\* inputs of the passes
DimsSet == {DefaultDims, XyzDims}
Pts == {<<100, 200>>, <<-5, 1001>>}
ZVals == {None, Some(105)}
\* the m, t and tm arguments of coordinate
OptChannels == {<<None, None, None>>, <<Some(7), Some(8), Some(9)>>}
DatasetNames == {NoName, SomeName("ds")}
Names == {"id", "a\"b"}
PropValues ==
    {ColumnValue("Int", -3, FALSE, ""), ColumnValue("String", 0, FALSE, "NZL"),
     ColumnValue("DateTime", 0, FALSE, "\"q\""),
     ColumnValue("Json", 0, FALSE, "{}")}

\* dimensionalities with and without the M, T and TM channels
CallDims ==
    DimsSet \cup {CoordDimensions(TRUE, TRUE, TRUE, TRUE),
                  CoordDimensions(FALSE, TRUE, FALSE, FALSE)}

\* the constructions: new, or with_dims with one of the dimensionalities D
Ctors(D) == {Ev("new", 0)} \cup {[Ev("with_dims", 0) EXCEPT !.dims = d] : d \in D}
Constructed(ctor) == IF ctor.op = "new" THEN new ELSE with_dims(ctor.dims)

Parent == stack[Len(stack)]

\* a geometry of this kind may begin here: as the pass's top-level geometry,
\* as a member of a collection (tagged), or as the untagged part its parent
\* is made of
CanBegin(kind, tagged) ==
    /\ nodes < MaxNodes
    /\ \/ stack = <<>> /\ phase \in {"start", "geom_slot"} /\ tagged
       \/ /\ stack # <<>>
          /\ \/ Parent.kind = "GeometryCollection" /\ tagged
             \/ Parent.kind = "MultiPolygon" /\ kind = "Polygon" /\ ~tagged
             \/ /\ Parent.kind \in {"Polygon", "MultiLineString"}
                /\ kind = "LineString" /\ ~tagged

CanEnd(kind, tagged) ==
    /\ stack # <<>>
    /\ Parent.kind = kind
    /\ Parent.tagged = tagged
    /\ kind = "Point" => Len(Parent.kids) = 1

CanCoord ==
    /\ stack # <<>>
    /\ nodes < MaxNodes
    /\ Parent.kind \in {"Point", "MultiPoint", "LineString"}
    /\ Parent.kind = "Point" => Parent.kids = <<>>

\* the zero-based position among the siblings of the same parent
NextIdx == IF stack = <<>> THEN 0 ELSE Len(Parent.kids)

\* the sink's part of every event: the writes reach the output in order,
\* and the event returns the error of the write that failed, if one did
Deliver(ev, chunks) ==
    LET r == Run(chunks, sink, out)
    IN /\ out' = r.out
       /\ sink' = r.sink
       /\ prev' = out
       /\ last' = [ev EXCEPT !.err = ~r.ok]
       /\ dims' = dims
       /\ scan' = ScanRange(r.out, Len(out) + 1, Len(r.out), scan)

AddKid(stk, node) ==
    [stk EXCEPT ![Len(stk)].kids = Append(stk[Len(stk)].kids, node)]

Begin(kind, tagged) ==
    /\ stack' = Append(stack, [kind |-> kind, tagged |-> tagged,
                               idx |-> NextIdx, kids |-> <<>>,
                               start |-> Len(out), at |-> Len(out')])
    /\ nodes' = nodes + 1
    /\ phase' = IF stack # <<>> THEN phase
                ELSE IF phase = "start" THEN "geom" ELSE "feature_geom"
    /\ UNCHANGED <<source, conforming, log, conv>>

End ==
    LET node == Node(Parent.kind, Parent.tagged, Parent.kids)
        rest == SubSeq(stack, 1, Len(stack) - 1)
    IN /\ stack' = IF rest = <<>> THEN rest ELSE AddKid(rest, node)
       /\ source' = IF rest = <<>> THEN [source EXCEPT !.geom = <<node>>]
                    ELSE source
       /\ phase' = IF rest # <<>> THEN phase
                   ELSE IF phase = "geom" THEN "done" ELSE "geom_closed"
       /\ UNCHANGED <<nodes, conforming, log, conv>>

----------------------------------------------------------------------------
(* Geometry events *)

Xy ==
    /\ CanCoord
    /\ \E p \in Pts :
        /\ Deliver([Ev("xy", NextIdx) EXCEPT !.x = p[1], !.y = p[2]],
                   xy(p[1], p[2], NextIdx))
        /\ stack' = AddKid(stack, Coord(p[1], p[2], None))
    /\ nodes' = nodes + 1
    /\ UNCHANGED <<phase, source, conforming, log, conv>>

Coordinate ==
    /\ CanCoord
    /\ \E p \in Pts, z \in ZVals, o \in OptChannels :
        /\ Deliver([Ev("coordinate", NextIdx) EXCEPT !.x = p[1], !.y = p[2],
                       !.z = z, !.m = o[1], !.t = o[2], !.tm = o[3]],
                   coordinate(p[1], p[2], z, o[1], o[2], o[3], NextIdx))
        /\ stack' = AddKid(stack, Coord(p[1], p[2], z))
        /\ conforming' = (/\ conforming
                          /\ z.some => dimensions.z
                          /\ o[1].some => dimensions.m
                          /\ o[2].some => dimensions.t
                          /\ o[3].some => dimensions.tm)
    /\ nodes' = nodes + 1
    /\ UNCHANGED <<phase, source, log, conv>>

PointBegin ==
    /\ CanBegin("Point", TRUE)
    /\ Deliver(Ev("point_begin", NextIdx), point_begin(NextIdx))
    /\ Begin("Point", TRUE)

PointEnd ==
    /\ CanEnd("Point", TRUE)
    /\ Deliver(Ev("point_end", Parent.idx), point_end(Parent.idx))
    /\ End

MultiPointBegin ==
    /\ CanBegin("MultiPoint", TRUE)
    /\ Deliver(Ev("multipoint_begin", NextIdx), multipoint_begin(0, NextIdx))
    /\ Begin("MultiPoint", TRUE)

MultiPointEnd ==
    /\ CanEnd("MultiPoint", TRUE)
    /\ Deliver(Ev("multipoint_end", Parent.idx), multipoint_end(Parent.idx))
    /\ End

LineStringBegin ==
    \E tagged \in BOOLEAN :
        /\ CanBegin("LineString", tagged)
        /\ Deliver([Ev("linestring_begin", NextIdx) EXCEPT !.tagged = tagged],
                   linestring_begin(tagged, 0, NextIdx))
        /\ Begin("LineString", tagged)

LineStringEnd ==
    \E tagged \in BOOLEAN :
        /\ CanEnd("LineString", tagged)
        /\ Deliver([Ev("linestring_end", Parent.idx) EXCEPT !.tagged = tagged],
                   linestring_end(tagged, Parent.idx))
        /\ End

MultiLineStringBegin ==
    /\ CanBegin("MultiLineString", TRUE)
    /\ Deliver(Ev("multilinestring_begin", NextIdx),
               multilinestring_begin(0, NextIdx))
    /\ Begin("MultiLineString", TRUE)

MultiLineStringEnd ==
    /\ CanEnd("MultiLineString", TRUE)
    /\ Deliver(Ev("multilinestring_end", Parent.idx),
               multilinestring_end(Parent.idx))
    /\ End

PolygonBegin ==
    \E tagged \in BOOLEAN :
        /\ CanBegin("Polygon", tagged)
        /\ Deliver([Ev("polygon_begin", NextIdx) EXCEPT !.tagged = tagged],
                   polygon_begin(tagged, 0, NextIdx))
        /\ Begin("Polygon", tagged)

PolygonEnd ==
    \E tagged \in BOOLEAN :
        /\ CanEnd("Polygon", tagged)
        /\ Deliver([Ev("polygon_end", Parent.idx) EXCEPT !.tagged = tagged],
                   polygon_end(tagged, Parent.idx))
        /\ End

MultiPolygonBegin ==
    /\ CanBegin("MultiPolygon", TRUE)
    /\ Deliver(Ev("multipolygon_begin", NextIdx), multipolygon_begin(0, NextIdx))
    /\ Begin("MultiPolygon", TRUE)

MultiPolygonEnd ==
    /\ CanEnd("MultiPolygon", TRUE)
    /\ Deliver(Ev("multipolygon_end", Parent.idx), multipolygon_end(Parent.idx))
    /\ End

GeometryCollectionBegin ==
    /\ CanBegin("GeometryCollection", TRUE)
    /\ Deliver(Ev("geometrycollection_begin", NextIdx),
               geometrycollection_begin(0, NextIdx))
    /\ Begin("GeometryCollection", TRUE)

GeometryCollectionEnd ==
    /\ CanEnd("GeometryCollection", TRUE)
    /\ Deliver(Ev("geometrycollection_end", Parent.idx),
               geometrycollection_end(Parent.idx))
    /\ End

----------------------------------------------------------------------------
(* Feature and property events *)

DatasetBegin ==
    /\ phase = "start"
    /\ \E name \in DatasetNames :
        /\ Deliver([Ev("dataset_begin", 0) EXCEPT !.name = name],
                   dataset_begin(name))
        /\ source' = [source EXCEPT !.name = name, !.dsat = Len(out')]
    /\ phase' = "dataset"
    /\ UNCHANGED <<stack, nodes, conforming, log, conv>>

DatasetEnd ==
    /\ phase = "dataset"
    /\ Deliver(Ev("dataset_end", 0), dataset_end)
    /\ phase' = "done"
    /\ UNCHANGED <<stack, nodes, source, conforming, log, conv>>

FeatureBegin ==
    /\ phase = "dataset"
    /\ nodes < MaxNodes
    /\ Deliver(Ev("feature_begin", Len(source.feats)),
               feature_begin(Len(source.feats)))
    /\ phase' = "feature"
    /\ nodes' = nodes + 1
    /\ UNCHANGED <<stack, source, conforming, log, conv>>

FeatureEnd ==
    /\ phase = "feature_tail"
    /\ Deliver(Ev("feature_end", Len(source.feats)),
               feature_end(Len(source.feats)))
    /\ source' = [source EXCEPT
                    !.feats = Append(@, [hasprops |-> source.hasprops,
                                         props |-> source.props,
                                         geom |-> source.geom]),
                    !.hasprops = FALSE, !.props = <<>>, !.geom = <<>>]
    /\ phase' = "dataset"
    /\ UNCHANGED <<stack, nodes, conforming, log, conv>>

PropertiesBegin ==
    /\ phase = "feature"
    /\ Deliver(Ev("properties_begin", 0), properties_begin)
    /\ source' = [source EXCEPT !.hasprops = TRUE, !.propsat = Len(out')]
    /\ phase' = "props"
    /\ UNCHANGED <<stack, nodes, conforming, log, conv>>

\* the driver offers the next property unless the sink asked it to stop
Property ==
    /\ phase = "props"
    /\ nodes < MaxNodes
    /\ last.op = "property" => ~last.ret
    /\ \E colname \in Names, colval \in PropValues :
        LET i == Len(source.props) IN
        /\ Deliver([Ev("property", i) EXCEPT !.colname = colname,
                       !.colval = colval,
                       !.ret = property_result(i, colname, colval)],
                   property(i, colname, colval))
        /\ source' = [source EXCEPT
                        !.props = Append(@, [colname |-> colname,
                                             colval |-> colval])]
    /\ nodes' = nodes + 1
    /\ UNCHANGED <<phase, stack, conforming, log, conv>>

PropertiesEnd ==
    /\ phase = "props"
    /\ Deliver(Ev("properties_end", 0), properties_end)
    /\ phase' = "feature_p"
    /\ UNCHANGED <<stack, nodes, source, conforming, log, conv>>

GeometryBegin ==
    /\ phase \in {"feature", "feature_p"}
    /\ Deliver(Ev("geometry_begin", 0), geometry_begin)
    /\ phase' = "geom_slot"
    /\ UNCHANGED <<stack, nodes, source, conforming, log, conv>>

GeometryEnd ==
    /\ phase = "geom_closed"
    /\ Deliver(Ev("geometry_end", 0), geometry_end)
    /\ phase' = "feature_tail"
    /\ UNCHANGED <<stack, nodes, source, conforming, log, conv>>

----------------------------------------------------------------------------
(* The pass: a writer from new (default dims) or with_dims, then the events *)

Init ==
    /\ \E ctor \in Ctors(DimsSet \ {DefaultDims}) :
        /\ dims = Constructed(ctor).dims
        /\ out = Constructed(ctor).out
        /\ log = <<ctor>>
    /\ prev = ""
    /\ last = NoEvent
    /\ phase = "start"
    /\ stack = <<>>
    /\ nodes = 0
    /\ source = NoSource
    /\ conforming = TRUE
    /\ sink = VecSink
    /\ conv = NoConv
    /\ scan = ScanStart

Next ==
    \/ Xy \/ Coordinate
    \/ PointBegin \/ PointEnd
    \/ MultiPointBegin \/ MultiPointEnd
    \/ LineStringBegin \/ LineStringEnd
    \/ MultiLineStringBegin \/ MultiLineStringEnd
    \/ PolygonBegin \/ PolygonEnd
    \/ MultiPolygonBegin \/ MultiPolygonEnd
    \/ GeometryCollectionBegin \/ GeometryCollectionEnd
    \/ DatasetBegin \/ DatasetEnd
    \/ FeatureBegin \/ FeatureEnd
    \/ PropertiesBegin \/ Property \/ PropertiesEnd
    \/ GeometryBegin \/ GeometryEnd

Spec == Init /\ [][Next]_vars

----------------------------------------------------------------------------
(* One call of property on a new writer, for every name and value of a     *)
(* bounded set: the call's arguments wait in last until it is made.        *)

Alphabet == {"a", "\"", "\\", "\n"}

RECURSIVE Strs(_)
\* the texts of at most n characters of the alphabet
Strs(n) ==
    IF n = 0 THEN {""}
    ELSE {""} \cup {c \o w : c \in Alphabet, w \in Strs(n - 1)}

CallValues ==
    {ColumnValue(k, 0, FALSE, w) : k \in StrKinds \cup BlobKinds,
                                  w \in Strs(MaxStrLen)}
    \cup {ColumnValue(k, n, FALSE, "") : k \in {"Byte", "Long"}, n \in {-3, 0, 12}}
    \cup {ColumnValue("UInt", 7, FALSE, "")}
    \cup {ColumnValue(k, n, FALSE, "") : k \in FloatKinds, n \in {-5, 15, 100}}
    \cup {ColumnValue("Bool", 0, b, "") : b \in BOOLEAN}

InitProp ==
    /\ dims = new.dims
    /\ out = new.out
    /\ prev = ""
    /\ \E i \in {0, 1}, colname \in Strs(MaxStrLen), colval \in CallValues :
        last = [Ev("property_args", i) EXCEPT !.colname = colname,
                                             !.colval = colval]
    /\ phase = "call"
    /\ stack = <<>>
    /\ nodes = 0
    /\ source = NoSource
    /\ conforming = TRUE
    /\ sink = VecSink
    /\ log = <<Ev("new", 0)>>
    /\ conv = NoConv
    /\ scan = ScanStart

PropertyCall ==
    /\ phase = "call"
    /\ Deliver([last EXCEPT !.op = "property",
                   !.ret = property_result(last.idx, last.colname, last.colval)],
               property(last.idx, last.colname, last.colval))
    /\ phase' = "called"
    /\ UNCHANGED <<stack, nodes, source, conforming, log, conv>>

NextProp == PropertyCall

SpecProp == InitProp /\ [][NextProp]_vars

----------------------------------------------------------------------------
(* One call of dataset_begin on a writer just made, for no name and for    *)
(* every name of a bounded set: the argument waits in last until the call. *)

CallNames == {NoName} \cup {SomeName(w) : w \in Strs(MaxStrLen)}

InitName ==
    /\ \E ctor \in Ctors(CallDims) :
        /\ dims = Constructed(ctor).dims
        /\ out = Constructed(ctor).out
        /\ log = <<ctor>>
    /\ prev = ""
    /\ \E name \in CallNames :
        last = [Ev("dataset_begin_args", 0) EXCEPT !.name = name]
    /\ phase = "call"
    /\ stack = <<>>
    /\ nodes = 0
    /\ source = NoSource
    /\ conforming = TRUE
    /\ sink = VecSink
    /\ conv = NoConv
    /\ scan = ScanStart

DatasetBeginCall ==
    /\ phase = "call"
    /\ Deliver([last EXCEPT !.op = "dataset_begin"], dataset_begin(last.name))
    /\ phase' = "called"
    /\ UNCHANGED <<stack, nodes, source, conforming, log, conv>>

NextName == DatasetBeginCall

SpecName == InitName /\ [][NextName]_vars

----------------------------------------------------------------------------
(* Call sequences: any operations, in any order and with any arguments of  *)
(* a bounded set, on one writer.  The writer keeps no state besides dims   *)
(* and its output, so every writer state is the state after some sequence. *)
(* The sequence ends at the first call that returns an error.              *)

CallIdx == {0, 1}
IdxBeginOps ==
    {"point_begin", "multipoint_begin", "multilinestring_begin",
     "multipolygon_begin", "geometrycollection_begin", "feature_begin"}
PlainOps ==
    {"point_end", "multipoint_end", "multilinestring_end", "multipolygon_end",
     "geometrycollection_end", "feature_end", "dataset_end",
     "properties_begin", "properties_end", "geometry_begin", "geometry_end"}

XyCalls == {[Ev("xy", i) EXCEPT !.x = -5, !.y = 1001] : i \in CallIdx}
CoordinateCalls ==
    {[Ev("coordinate", i) EXCEPT !.x = -5, !.y = 1001, !.z = z,
                                 !.m = o[1], !.t = o[2], !.tm = o[3]] :
        i \in CallIdx, z \in ZVals, o \in OptChannels}

Calls ==
    XyCalls \cup CoordinateCalls
    \cup {Ev(op, i) : op \in IdxBeginOps, i \in CallIdx}
    \cup {[Ev(op, i) EXCEPT !.tagged = b] :
            op \in {"linestring_begin", "polygon_begin"},
            i \in CallIdx, b \in BOOLEAN}
    \cup {Ev(op, 0) : op \in PlainOps}
    \cup {[Ev(op, 0) EXCEPT !.tagged = b] :
            op \in {"linestring_end", "polygon_end"}, b \in BOOLEAN}
    \cup {[Ev("dataset_begin", 0) EXCEPT !.name = n] : n \in DatasetNames}
    \cup {[Ev("property", i) EXCEPT !.colname = "id", !.colval = v] :
            i \in CallIdx, v \in PropValues}

\* the operation a call names, with the call's arguments
Writes(c) ==
    CASE c.op = "xy" -> xy(c.x, c.y, c.idx)
      [] c.op = "coordinate" -> coordinate(c.x, c.y, c.z, c.m, c.t, c.tm, c.idx)
      [] c.op = "point_begin" -> point_begin(c.idx)
      [] c.op = "point_end" -> point_end(c.idx)
      [] c.op = "multipoint_begin" -> multipoint_begin(0, c.idx)
      [] c.op = "multipoint_end" -> multipoint_end(c.idx)
      [] c.op = "linestring_begin" -> linestring_begin(c.tagged, 0, c.idx)
      [] c.op = "linestring_end" -> linestring_end(c.tagged, c.idx)
      [] c.op = "multilinestring_begin" -> multilinestring_begin(0, c.idx)
      [] c.op = "multilinestring_end" -> multilinestring_end(c.idx)
      [] c.op = "polygon_begin" -> polygon_begin(c.tagged, 0, c.idx)
      [] c.op = "polygon_end" -> polygon_end(c.tagged, c.idx)
      [] c.op = "multipolygon_begin" -> multipolygon_begin(0, c.idx)
      [] c.op = "multipolygon_end" -> multipolygon_end(c.idx)
      [] c.op = "geometrycollection_begin" -> geometrycollection_begin(0, c.idx)
      [] c.op = "geometrycollection_end" -> geometrycollection_end(c.idx)
      [] c.op = "dataset_begin" -> dataset_begin(c.name)
      [] c.op = "dataset_end" -> dataset_end
      [] c.op = "feature_begin" -> feature_begin(c.idx)
      [] c.op = "feature_end" -> feature_end(c.idx)
      [] c.op = "properties_begin" -> properties_begin
      [] c.op = "properties_end" -> properties_end
      [] c.op = "geometry_begin" -> geometry_begin
      [] c.op = "geometry_end" -> geometry_end
      [] c.op = "property" -> property(c.idx, c.colname, c.colval)
      [] OTHER -> <<>>

\* the bool of an Ok(bool): only property returns one
Returns(c) ==
    IF c.op = "property" THEN property_result(c.idx, c.colname, c.colval)
    ELSE FALSE

Call ==
    /\ phase = "calls"
    /\ Len(log) <= MaxCalls
    /\ \E c \in Calls :
        /\ Deliver([c EXCEPT !.ret = Returns(c)], Writes(c))
        /\ log' = Append(log, last')
        /\ phase' = IF last'.err THEN "failed" ELSE "calls"
    /\ UNCHANGED <<stack, nodes, source, conforming, conv>>

InitCalls ==
    /\ \E ctor \in Ctors(CallDims) :
        /\ dims = Constructed(ctor).dims
        /\ out = Constructed(ctor).out
        /\ log = <<ctor>>
    /\ prev = ""
    /\ last = NoEvent
    /\ phase = "calls"
    /\ stack = <<>>
    /\ nodes = 0
    /\ source = NoSource
    /\ conforming = TRUE
    /\ sink = VecSink
    /\ conv = NoConv
    /\ scan = ScanStart

NextCalls == Call

SpecCalls == InitCalls /\ [][NextCalls]_vars

\* the same, on a new writer whose output fails one of its write_all calls
Partials == {0, 1}

InitFail ==
    /\ dims = new.dims
    /\ out = new.out
    /\ log = <<Ev("new", 0)>>
    /\ prev = ""
    /\ last = NoEvent
    /\ phase = "calls"
    /\ stack = <<>>
    /\ nodes = 0
    /\ source = NoSource
    /\ conforming = TRUE
    /\ sink \in {FailingSink(f, p) : f \in 1..MaxFailAt, p \in Partials}
    /\ conv = NoConv
    /\ scan = ScanStart

NextFail == Call

SpecFail == InitFail /\ [][NextFail]_vars

----------------------------------------------------------------------------
(* ToGdal: the conversion of a source that describes itself by geometry    *)
(* events into the foreign library's geometry, built by a GdalWriter.      *)

\* the points of the sources converted, and the sources: lines of them
GdalPts == {Coord(100, 200, None), Coord(-5, 1001, Some(105))}
Sources == UNION {[1..n -> GdalPts] : n \in 0..MaxNodes}

\* process_geom of a line of n points: linestring_begin, its coordinates,
\* linestring_end
EventCount(self) == Len(self) + 2

\* the point a GdalWriter adds for a coordinate: with its z when the
\* writer's dimensionality has the Z channel active
GdalPoint(p, d) == IF d.z THEN p ELSE Coord(p.x, p.y, None)

\* the GdalWriter after event number n of the source
GdalEvent(gdal, self, n) ==
    IF n = 1 THEN [gdal EXCEPT !.geom.kind = "LineString"]
    ELSE IF n = EventCount(self) THEN [gdal EXCEPT !.geom.closed = TRUE]
    ELSE [gdal EXCEPT !.geom.pts = Append(@, GdalPoint(self[n - 1], gdal.dims))]

ConvCall ==
    /\ conv.pc = "call"
    /\ conv' = IF conv.fn = "to_gdal" THEN to_gdal(conv)
               ELSE to_gdal_ndim(conv, conv.arg)
    /\ UNCHANGED <<dims, out, prev, last, phase, stack, nodes, source,
                   conforming, sink, log, scan>>

\* let mut gdal = GdalWriter::new();
ConvNew ==
    /\ conv.pc = "new"
    /\ conv' = [conv EXCEPT !.gdal = GdalWriterNew, !.pc = "set_dims"]
    /\ UNCHANGED <<dims, out, prev, last, phase, stack, nodes, source,
                   conforming, sink, log, scan>>

\* gdal.dims = dims;
ConvSetDims ==
    /\ conv.pc = "set_dims"
    /\ conv' = [conv EXCEPT !.gdal.dims = conv.ndim, !.pc = "process_geom",
                            !.drives = @ + 1]
    /\ UNCHANGED <<dims, out, prev, last, phase, stack, nodes, source,
                   conforming, sink, log, scan>>

\* self.process_geom(&mut gdal): the next event of the source; the drive
\* ends with the error of the event that fails
ConvEvent ==
    /\ conv.pc = "process_geom"
    /\ conv.pos < EventCount(conv.self)
    /\ conv' = IF conv.pos + 1 = conv.failat
               THEN [conv EXCEPT !.pos = @ + 1, !.driven = Err(conv.failat),
                                 !.pc = "driven"]
               ELSE [conv EXCEPT !.pos = @ + 1,
                                 !.gdal = GdalEvent(@, conv.self, conv.pos + 1)]
    /\ UNCHANGED <<dims, out, prev, last, phase, stack, nodes, source,
                   conforming, sink, log, scan>>

\* self.process_geom(&mut gdal): every event delivered, the drive returns Ok
ConvDriven ==
    /\ conv.pc = "process_geom"
    /\ conv.pos = EventCount(conv.self)
    /\ conv' = [conv EXCEPT !.driven = OkGeom(EmptyGeom), !.pc = "driven"]
    /\ UNCHANGED <<dims, out, prev, last, phase, stack, nodes, source,
                   conforming, sink, log, scan>>

\* the ? after process_geom, and Ok(gdal.geom)
ConvReturn ==
    /\ conv.pc = "driven"
    /\ conv' = [conv EXCEPT !.ret = IF conv.driven.ok THEN OkGeom(conv.gdal.geom)
                                    ELSE conv.driven,
                            !.pc = "returned"]
    /\ UNCHANGED <<dims, out, prev, last, phase, stack, nodes, source,
                   conforming, sink, log, scan>>

InitGdal ==
    /\ dims = new.dims
    /\ out = new.out
    /\ log = <<>>
    /\ prev = ""
    /\ last = NoEvent
    /\ phase = "none"
    /\ stack = <<>>
    /\ nodes = 0
    /\ source = NoSource
    /\ conforming = TRUE
    /\ sink = VecSink
    /\ scan = ScanStart
    /\ \E self \in Sources, failat \in 0..(MaxNodes + 2) :
        /\ failat <= EventCount(self)
        /\ conv \in {Conversion("to_gdal", self, DefaultDims, failat)}
                    \cup {Conversion("to_gdal_ndim", self, d, failat) :
                            d \in DimsSet}

NextGdal ==
    \/ ConvCall \/ ConvNew \/ ConvSetDims
    \/ ConvEvent \/ ConvDriven \/ ConvReturn

SpecGdal == InitGdal /\ [][NextGdal]_vars

----------------------------------------------------------------------------
(* Reading the output back: a JSON text parsed to a structured value, as   *)
(* the tests do with serde_json (assert_json_eq).  A number is its value   *)
(* in tenths; an object is a function from its member names, a repeated    *)
(* name keeping the last value.                                            *)

JNull == [t |-> "null", v |-> 0]
JNum(n) == [t |-> "num", v |-> n]
JBool(b) == [t |-> "bool", v |-> b]
JStr(s) == [t |-> "str", v |-> s]
JArr(a) == [t |-> "arr", v |-> a]
JObj(f) == [t |-> "obj", v |-> f]

Fail == [ok |-> FALSE, v |-> JNull, i |-> 0]
Ok(v, i) == [ok |-> TRUE, v |-> v, i |-> i]

Digits == {"0", "1", "2", "3", "4", "5", "6", "7", "8", "9"}
DigitVal(c) ==
    CASE c = "0" -> 0 [] c = "1" -> 1 [] c = "2" -> 2 [] c = "3" -> 3
      [] c = "4" -> 4 [] c = "5" -> 5 [] c = "6" -> 6 [] c = "7" -> 7
      [] c = "8" -> 8 [] c = "9" -> 9

\* the character at i, or "" past the end
At(s, i) == IF i >= 1 /\ i <= Len(s) THEN Ch(s, i) ELSE ""

RECURSIVE SkipWs(_, _)
SkipWs(s, i) ==
    IF At(s, i) \in {" ", "\n", "\t", "\r"} THEN SkipWs(s, i + 1) ELSE i

RECURSIVE ParseDigits(_, _, _)
\* the digits from i on: their value and the position after them
ParseDigits(s, i, acc) ==
    IF At(s, i) \in Digits THEN ParseDigits(s, i + 1, acc * 10 + DigitVal(At(s, i)))
    ELSE [n |-> acc, i |-> i]

\* -? int frac?, with one fraction digit at most (the values are tenths)
ParseNumber(s, i) ==
    LET neg == At(s, i) = "-"
        j == IF neg THEN i + 1 ELSE i
        ip == ParseDigits(s, j, 0)
        hasfrac == At(s, ip.i) = "."
        fp == ParseDigits(s, ip.i + 1, 0)
        n == IF hasfrac THEN ip.n * 10 + fp.n ELSE ip.n * 10
        e == IF hasfrac THEN fp.i ELSE ip.i
    IN IF \/ ip.i = j
          \/ ip.i > j + 1 /\ At(s, j) = "0"
          \/ hasfrac /\ fp.i # ip.i + 2
       THEN Fail
       ELSE Ok(JNum(IF neg THEN -n ELSE n), e)

RECURSIVE ParseChars(_, _, _)
\* the characters of a string from i on, up to its closing quote
ParseChars(s, i, acc) ==
    LET c == At(s, i)
        e == At(s, i + 1)
    IN CASE c = "" -> Fail
         [] c = "\"" -> Ok(JStr(acc), i + 1)
         [] c \in {"\n", "\t", "\r", "\f"} -> Fail
         [] c = "\\" ->
                (CASE e \in {"\"", "\\", "/"} -> ParseChars(s, i + 2, acc \o e)
                   [] e = "n" -> ParseChars(s, i + 2, acc \o "\n")
                   [] e = "t" -> ParseChars(s, i + 2, acc \o "\t")
                   [] e = "r" -> ParseChars(s, i + 2, acc \o "\r")
                   [] e = "f" -> ParseChars(s, i + 2, acc \o "\f")
                   [] OTHER -> Fail)
         [] OTHER -> ParseChars(s, i + 1, acc \o c)

ParseString(s, i) == IF At(s, i) = "\"" THEN ParseChars(s, i + 1, "") ELSE Fail

ParseLiteral(s, i, word, v) ==
    IF SubSeq(s, i, i + Len(word) - 1) = word /\ i + Len(word) - 1 <= Len(s)
    THEN Ok(v, i + Len(word)) ELSE Fail

RECURSIVE ParseValue(_, _)
RECURSIVE ParseItems(_, _, _)
RECURSIVE ParseMembers(_, _, _)

\* one array item at i, then "," and the items left, or "]"
ParseItems(s, i, acc) ==
    LET r == ParseValue(s, i)
        j == SkipWs(s, r.i)
    IN IF ~r.ok THEN Fail
       ELSE IF At(s, j) = "," THEN ParseItems(s, j + 1, Append(acc, r.v))
       ELSE IF At(s, j) = "]" THEN Ok(JArr(Append(acc, r.v)), j + 1)
       ELSE Fail

\* one member "name": value at i, then "," and the members left, or "}"
ParseMembers(s, i, acc) ==
    LET k == ParseString(s, SkipWs(s, i))
        c == SkipWs(s, k.i)
        r == ParseValue(s, c + 1)
        j == SkipWs(s, r.i)
        obj == (k.v.v :> r.v) @@ acc
    IN IF ~k.ok \/ At(s, c) # ":" THEN Fail
       ELSE IF ~r.ok THEN Fail
       ELSE IF At(s, j) = "," THEN ParseMembers(s, j + 1, obj)
       ELSE IF At(s, j) = "}" THEN Ok(JObj(obj), j + 1)
       ELSE Fail

ParseValue(s, i0) ==
    LET i == SkipWs(s, i0)
        c == At(s, i)
        n == SkipWs(s, i + 1)
    IN CASE c = "{" -> (IF At(s, n) = "}" THEN Ok(JObj(<<>>), n + 1)
                        ELSE ParseMembers(s, n, <<>>))
         [] c = "[" -> (IF At(s, n) = "]" THEN Ok(JArr(<<>>), n + 1)
                        ELSE ParseItems(s, n, <<>>))
         [] c = "\"" -> ParseString(s, i)
         [] c = "t" -> ParseLiteral(s, i, "true", JBool(TRUE))
         [] c = "f" -> ParseLiteral(s, i, "false", JBool(FALSE))
         [] c = "n" -> ParseLiteral(s, i, "null", JNull)
         [] c = "-" \/ c \in Digits -> ParseNumber(s, i)
         [] OTHER -> Fail

\* serde_json::from_str: one value, and nothing but white space after it
FromStr(s) ==
    LET r == ParseValue(s, 1)
    IN IF r.ok /\ SkipWs(s, r.i) = Len(s) + 1 THEN r ELSE Fail

----------------------------------------------------------------------------
(* The GeoJSON value of what the driver described *)

Member(k, v) == k :> v

CoordValue(c) ==
    JArr(<<JNum(c.x), JNum(c.y)>> \o (IF c.z.some THEN <<JNum(c.z.v)>> ELSE <<>>))

RECURSIVE GeoValue(_)
GeoValue(n) ==
    LET kidvals == [i \in 1..Len(n.kids) |-> GeoValue(n.kids[i])]
    IN CASE n.kind = "Coord" -> CoordValue(n)
         [] n.kind = "Point" ->
                JObj(Member("type", JStr("Point"))
                     @@ Member("coordinates", kidvals[1]))
         [] n.kind = "GeometryCollection" ->
                JObj(Member("type", JStr("GeometryCollection"))
                     @@ Member("geometries", JArr(kidvals)))
         [] n.kind \notin {"Coord", "Point", "GeometryCollection"} /\ n.tagged ->
                JObj(Member("type", JStr(n.kind))
                     @@ Member("coordinates", JArr(kidvals)))
         [] OTHER -> JArr(kidvals)

ColumnJson(colval) ==
    CASE colval.kind \in IntKinds -> JNum(colval.n * 10)
      [] colval.kind = "Bool" -> JBool(colval.b)
      [] colval.kind \in FloatKinds -> JNum(colval.n)
      [] OTHER -> JStr(colval.s)

RECURSIVE PropsValue(_)
\* the members of a property block; a blob value has no rendering
PropsValue(props) ==
    IF props = <<>> THEN <<>>
    ELSE LET p == props[Len(props)]
             rest == PropsValue(SubSeq(props, 1, Len(props) - 1))
         IN IF p.colval.kind \in BlobKinds THEN rest
            ELSE Member(p.colname, ColumnJson(p.colval)) @@ rest

FeatureValue(f) ==
    JObj(Member("type", JStr("Feature"))
         @@ (IF f.hasprops THEN Member("properties", JObj(PropsValue(f.props)))
             ELSE <<>>)
         @@ Member("geometry", GeoValue(f.geom[1])))

DatasetValue(src) ==
    JObj(Member("type", JStr("FeatureCollection"))
         @@ (IF src.name.some THEN Member("name", JStr(src.name.v)) ELSE <<>>)
         @@ Member("features",
                   JArr([i \in 1..Len(src.feats) |-> FeatureValue(src.feats[i])])))

\* the value a finished pass described: a dataset, or one bare geometry
SourceValue ==
    IF source.geom # <<>> THEN GeoValue(source.geom[1]) ELSE DatasetValue(source)

NoBlobs ==
    \A i \in 1..Len(source.feats) :
        \A j \in 1..Len(source.feats[i].props) :
            source.feats[i].props[j].colval.kind \notin BlobKinds

----------------------------------------------------------------------------
(* Reading the output for the properties below *)

\* what the last event wrote
Appended == SubSeq(out, Len(prev) + 1, Len(out))
\* the output after its first n bytes
After(n) == SubSeq(out, n + 1, Len(out))
StartsWith(s, p) == Len(s) >= Len(p) /\ SubSeq(s, 1, Len(p)) = p
EndsWith(s, p) == Len(s) >= Len(p) /\ SubSeq(s, Len(s) - Len(p) + 1, Len(s)) = p
Max0(n) == IF n > 0 THEN n ELSE 0

\* the commas of s that stand outside every string and every bracket or
\* brace opened in s
TopCommas(s) == Scan(s).commas

\* the occurrences of p in s
Count(s, p) ==
    Cardinality({i \in 1..(Len(s) - Len(p) + 1) : SubSeq(s, i, i + Len(p) - 1) = p})

\* the decimal text of the coordinate values the passes use
Dec(v) ==
    CASE v = 100 -> "10" [] v = 200 -> "20" [] v = -5 -> "-0.5"
      [] v = 1001 -> "100.1" [] v = 105 -> "10.5"

GeomBeginOps ==
    {"point_begin", "multipoint_begin", "linestring_begin",
     "multilinestring_begin", "polygon_begin", "multipolygon_begin",
     "geometrycollection_begin"}
IndexedOps == {"xy", "coordinate", "feature_begin", "property"} \cup GeomBeginOps
EndOps ==
    {"point_end", "multipoint_end", "linestring_end", "multilinestring_end",
     "polygon_end", "multipolygon_end", "geometrycollection_end",
     "feature_end", "properties_end", "geometry_end", "dataset_end"}
SeparatorOf(op) ==
    CASE op = "feature_begin" -> ",\n" [] op = "property" -> ", " [] OTHER -> ","

----------------------------------------------------------------------------
(* C1: once a pass has delivered all its events (one geometry of any kind, *)
(* or a dataset whose features carry string or numeric properties), the    *)
(* written text parses, and to the value the events described.             *)
RoundTrip ==
    phase = "done" /\ NoBlobs =>
        LET r == FromStr(out) IN r.ok /\ r.v = SourceValue

\* a finished pass over a multipolygon with a polygon with a ring with a
\* coordinate: three levels of nesting
RoundTripWitness ==
    /\ phase = "done"
    /\ source.geom # <<>>
    /\ source.geom[1].kind = "MultiPolygon"
    /\ Len(source.geom[1].kids) = 1
    /\ Len(source.geom[1].kids[1].kids) = 1
    /\ Len(source.geom[1].kids[1].kids[1].kids) = 1

(* C2: a Z value handed to coordinate is written if and only if the       *)
(* writer's dimensionality has the Z channel active.                       *)
DimensionalityGating ==
    last.op = "coordinate" /\ last.z.some =>
        LET xyText == "[" \o Dec(last.x) \o "," \o Dec(last.y)
            sep == IF last.idx > 0 THEN "," ELSE ""
        IN Appended = sep \o xyText
                      \o (IF dimensions.z THEN "," \o Dec(last.z.v) ELSE "") \o "]"

(* C3: property with a Json or Binary value writes nothing, whatever the   *)
(* index, and returns false.                                               *)
BlobIsNoOp ==
    last.op = "property" /\ last.colval.kind \in BlobKinds =>
        out = prev /\ last.ret = FALSE

(* C4: an operation that takes a sibling index writes its separator, once  *)
(* and first, exactly when the index is above 0; an end operation writes   *)
(* none; so n siblings delivered with indices 0..n-1 leave n-1 separators  *)
(* between them (none for n = 0 and n = 1).                                *)
SeparatorRule ==
    /\ last.op \in IndexedOps =>
        /\ StartsWith(Appended, ",") <=> last.idx > 0
        /\ last.idx > 0 => StartsWith(Appended, SeparatorOf(last.op))
        /\ TopCommas(Appended) = (IF last.idx > 0 THEN 1 ELSE 0)
    /\ last.op \in EndOps => Count(Appended, ",") = 0
    /\ stack # <<>> =>
        TopCommas(After(Parent.at)) = Max0(Len(Parent.kids) - 1)
    /\ last.op \in GeomBeginOps /\ Len(stack) > 1 =>
        TopCommas(After(stack[Len(stack) - 1].at)) = last.idx
    /\ phase = "props" =>
        TopCommas(After(source.propsat)) = Max0(Len(source.props) - 1)
    /\ phase = "dataset" =>
        TopCommas(After(source.dsat)) = Max0(Len(source.feats) - 1)

\* the second of two rings has just begun, after a first ring with content
SeparatorWitness ==
    /\ last.op = "linestring_begin"
    /\ last.idx = 1
    /\ Len(stack) = 2
    /\ Len(stack[1].kids) = 1
    /\ stack[1].kids[1].kids # <<>>

(* C5: linestring_begin and polygon_begin write the object header when     *)
(* tagged and a bare [ when not, and the matching end writes ]} or ];      *)
(* so the rendering of an untagged line or ring holds no type tag, and     *)
(* that of a tagged one holds exactly its own.                             *)
TaggingRule ==
    /\ last.op \in {"linestring_begin", "polygon_begin"} =>
        LET kind == IF last.op = "linestring_begin" THEN "LineString" ELSE "Polygon"
            sep == IF last.idx > 0 THEN "," ELSE ""
        IN Appended = sep \o (IF last.tagged
                              THEN "{\"type\": \"" \o kind \o "\", \"coordinates\": ["
                              ELSE "[")
    /\ last.op \in {"linestring_end", "polygon_end"} =>
        Appended = (IF last.tagged THEN "]}" ELSE "]")
    /\ stack # <<>> /\ Parent.kind \in {"LineString", "Polygon"} =>
        Count(After(Parent.start), "\"type\"") = (IF Parent.tagged THEN 1 ELSE 0)

\* an untagged ring with a coordinate, open inside a tagged polygon
TaggingWitness ==
    /\ Len(stack) = 2
    /\ stack[1].kind = "Polygon" /\ stack[1].tagged
    /\ stack[2].kind = "LineString" /\ ~stack[2].tagged
    /\ Len(stack[2].kids) = 1

RECURSIVE Rendered(_)
\* the members a property block shows: a blob value has no rendering
Rendered(props) ==
    IF props = <<>> THEN <<>>
    ELSE LET p == Head(props)
         IN (IF p.colval.kind \in BlobKinds THEN <<>>
             ELSE <<Flat(property(0, p.colname, p.colval))>>)
            \o Rendered(Tail(props))

RECURSIVE Join(_, _)
Join(texts, sep) ==
    IF texts = <<>> THEN ""
    ELSE IF Len(texts) = 1 THEN texts[1]
    ELSE texts[1] \o sep \o Join(Tail(texts), sep)

(* C8: a finished property block is , "properties": { then its rendered    *)
(* properties joined by ", " then }, whatever the kinds of the values.     *)
PropertiesBlock ==
    last.op = "properties_end" =>
        After(source.propsat) = Join(Rendered(source.props), ", ") \o "}"
        /\ EndsWith(SubSeq(out, 1, source.propsat), ", \"properties\": {")

(* C9: under the default dimensionality, a pass that delivers one point    *)
(* through point_begin(0), one x/y coordinate and point_end(0) writes      *)
(* {"type": "Point", "coordinates": [x,y]} and nothing else.               *)
PointRendering ==
    /\ dims = DefaultDims
    /\ phase = "done"
    /\ source.geom # <<>>
    /\ source.geom[1].kind = "Point"
    /\ ~source.geom[1].kids[1].z.some
    => LET c == source.geom[1].kids[1]
       IN /\ out = "{\"type\": \"Point\", \"coordinates\": ["
                   \o Dec(c.x) \o "," \o Dec(c.y) \o "]}"
          /\ c.x = 100 /\ c.y = 200 =>
                out = "{\"type\": \"Point\", \"coordinates\": [10,20]}"

\* the point (10, 20) delivered with xy, the pass finished
PointWitness ==
    /\ dims = DefaultDims
    /\ phase = "done"
    /\ last.op = "point_end" /\ last.idx = 0
    /\ source.geom[1].kind = "Point"
    /\ source.geom[1].kids[1] = Coord(100, 200, None)
    /\ out = "{\"type\": \"Point\", \"coordinates\": [10,20]}"

(* C10 as stated: dataset_begin writes { "type": "FeatureCollection", then *)
(* , "name": "<name>" exactly when a name is given, then , "features": [   *)
(* with a comma and a space between the members; dataset_end writes ]}.    *)
DatasetFramingOneLine ==
    /\ last.op = "dataset_begin" =>
        Appended = "{" \o "\"type\": \"FeatureCollection\""
                   \o (IF last.name.some
                       THEN ", \"name\": \"" \o last.name.v \o "\"" ELSE "")
                   \o ", \"features\": ["
    /\ last.op = "dataset_end" => Appended = "]}"

(* C10, amended: the members stand on lines of their own.  dataset_begin   *)
(* writes {, a line break, "type": "FeatureCollection", then a comma, a    *)
(* line break and "name": "<name>" exactly when a name is given, then a    *)
(* comma, a line break and "features": [ ; dataset_end writes ]} ; and     *)
(* neither writes anything else.                                           *)
DatasetFraming ==
    /\ last.op = "dataset_begin" =>
        Appended = "{\n" \o "\"type\": \"FeatureCollection\""
                   \o (IF last.name.some
                       THEN ",\n" \o "\"name\": \"" \o last.name.v \o "\"" ELSE "")
                   \o ",\n" \o "\"features\": ["
    /\ last.op = "dataset_end" => Appended = "]}"

\* a named dataset has just begun
DatasetWitness ==
    /\ last.op = "dataset_begin"
    /\ last.name = SomeName("ds")
    /\ Count(out, "\"name\": \"ds\"") = 1

----------------------------------------------------------------------------
(* The property call on its own (SpecProp) *)

HasQuote(w) == Count(w, "\"") > 0
\* no backslash and no control character
Plain(w) == Count(w, "\\") = 0 /\ Count(w, "\n") = 0

\* the member the call wrote, after its separator
WrittenMember ==
    IF last.idx > 0 THEN SubSeq(Appended, 3, Len(Appended)) ELSE Appended

\* the written member read back as the only member of an object gives the
\* name and the text of the call
ReadsBack ==
    LET r == FromStr("{" \o WrittenMember \o "}")
    IN r.ok /\ r.v = JObj(Member(last.colname, JStr(last.colval.s)))

(* C6 as stated: a String or DateTime property whose name or value holds   *)
(* a quote, with any other characters of the alphabet (backslash and line  *)
(* break among them), reads back as the original name and value.           *)
QuoteRoundTripAnyText ==
    /\ phase = "called"
    /\ last.colval.kind \in StrKinds
    /\ HasQuote(last.colname) \/ HasQuote(last.colval.s)
    => ReadsBack

(* C6, amended: a String or DateTime property whose name or value holds a  *)
(* quote, and whose name and value hold no backslash and no control        *)
(* character, reads back as the original name and value.                   *)
QuoteRoundTrip ==
    /\ phase = "called"
    /\ last.colval.kind \in StrKinds
    /\ HasQuote(last.colname) \/ HasQuote(last.colval.s)
    /\ Plain(last.colname) /\ Plain(last.colval.s)
    => ReadsBack

\* a name and a value that both hold a quote, written as the second member
QuoteWitness ==
    /\ phase = "called"
    /\ last.idx = 1
    /\ last.colval.kind = "DateTime"
    /\ last.colname = "\"a"
    /\ last.colval.s = "a\""
    /\ ReadsBack

RECURSIVE QuoteEscaped(_, _)
\* t is w with a backslash put before each quote and nothing else changed
QuoteEscaped(t, w) ==
    IF w = "" THEN t = ""
    ELSE IF Head(w) = "\""
         THEN StartsWith(t, "\\\"") /\ QuoteEscaped(SubSeq(t, 3, Len(t)), Tail(w))
         ELSE t # "" /\ Head(t) = Head(w) /\ QuoteEscaped(Tail(t), Tail(w))

EscapedLen(w) == Len(w) + Count(w, "\"")

(* C7: a String or DateTime property is written as "<name>": "<value>",    *)
(* name and value with a backslash before each quote and every other       *)
(* character (backslash, line break) as it is; a numeric or boolean        *)
(* property as "<name>": and the bare value, which reads as that value.    *)
PropertyRendering ==
    phase = "called" /\ last.colval.kind \notin BlobKinds =>
        LET m == WrittenMember
            n == EscapedLen(last.colname)
            v == EscapedLen(last.colval.s)
            rest == SubSeq(m, n + 5, Len(m))
        IN /\ StartsWith(m, "\"")
           /\ QuoteEscaped(SubSeq(m, 2, n + 1), last.colname)
           /\ SubSeq(m, n + 2, n + 4) = "\": "
           /\ last.colval.kind \in StrKinds =>
                /\ Len(rest) = v + 2
                /\ StartsWith(rest, "\"") /\ EndsWith(rest, "\"")
                /\ QuoteEscaped(SubSeq(rest, 2, v + 1), last.colval.s)
           /\ last.colval.kind \notin StrKinds =>
                /\ Count(rest, "\"") = 0
                /\ LET r == FromStr(rest)
                   IN r.ok /\ r.v = ColumnJson(last.colval)

\* a value with a backslash and a quote: only the quote gains a backslash
RenderingWitness ==
    /\ phase = "called"
    /\ last.colval.kind = "String"
    /\ last.colname = "a"
    /\ last.colval.s = "\\\""
    /\ out = "\"a\": \"\\\\\"\""

----------------------------------------------------------------------------
(* Call sequences (SpecCalls, SpecFail) *)

\* the writes of an operation that reach the output: write_all of no bytes
\* makes none
NonEmpty(chunks) == SelectSeq(chunks, LAMBDA c : c # "")

RECURSIVE WritesMade(_)
\* the write_all calls the calls of a log make when none fails
WritesMade(calls) ==
    IF calls = <<>> THEN 0
    ELSE Len(NonEmpty(Writes(Head(calls)))) + WritesMade(Tail(calls))

RECURSIVE RenderingsOf(_)
\* the renderings of the calls of a log, one after the other
RenderingsOf(calls) ==
    IF calls = <<>> THEN ""
    ELSE Join(Writes(Head(calls)), "") \o RenderingsOf(Tail(calls))

(* C11: when a write of an operation fails, the operation makes no write   *)
(* after it (the failed write is the last the output sees, made once), it  *)
(* returns the error, and what it wrote is its writes before the failed    *)
(* one and the bytes the output took of the failed one; a call whose       *)
(* writes all succeed returns Ok with all of them written.                 *)
FailFast ==
    /\ sink.calls <= sink.failat
    /\ last.err <=> sink.calls = sink.failat
    /\ last.err <=> phase = "failed"
    /\ Len(log) > 1 /\ last.err =>
        LET ws == NonEmpty(Writes(last))
            k == sink.failat - WritesMade(SubSeq(log, 2, Len(log) - 1))
        IN /\ k \in 1..Len(ws)
           /\ out = prev \o Join(SubSeq(ws, 1, k - 1), "")
                         \o SubSeq(ws[k], 1, Min(sink.partial, Len(ws[k]) - 1))
    /\ Len(log) > 1 /\ ~last.err =>
        /\ out = prev \o Join(Writes(last), "")
        /\ sink.calls = WritesMade(Tail(log))

\* coordinate with a Z value and index 1, after a call that succeeded: the
\* write of the separator fails, and neither x, y, z nor ] is written
FailFastWitness ==
    /\ Len(log) = 3
    /\ ~log[2].err /\ log[2].op = "polygon_begin"
    /\ last.op = "coordinate" /\ last.z.some /\ last.idx = 1
    /\ last.err
    /\ phase = "failed"
    /\ out = prev
    /\ sink.calls = sink.failat

(* C12: after any sequence of calls on a writer whose output accepts every *)
(* write, the output is the renderings of the calls one after the other in *)
(* call order, and the output before the last call is a prefix of it.      *)
AppendOnly ==
    /\ out = RenderingsOf(Tail(log))
    /\ StartsWith(out, prev)
    /\ Len(log) > 1 => prev = RenderingsOf(SubSeq(log, 2, Len(log) - 1))

\* two calls that no pass would make in this order, both rendered
AppendOnlyWitness ==
    /\ Len(log) = 3
    /\ log[2].op = "coordinate" /\ log[2].z.some /\ log[2].idx = 1
    /\ log[3].op = "dataset_begin" /\ log[3].name.some
    /\ prev = ",[-0.5,100.1,10.5]"
    /\ Len(out) > Len(prev)

(* C13: dimensions() answers the dimensionality the writer was made with   *)
(* (X/Y only for new, the given one for with_dims) in every state of a     *)
(* pass, whatever events were delivered.                                   *)
DimsFixed ==
    /\ log[1].op = "new" => dimensions = CoordDimensions(FALSE, FALSE, FALSE, FALSE)
    /\ log[1].op = "with_dims" => dimensions = log[1].dims

\* a finished dataset pass with a feature, on a writer made by with_dims
DimsFixedWitness ==
    /\ log[1].op = "with_dims" /\ log[1].dims = XyzDims
    /\ phase = "done"
    /\ Len(source.feats) = 1
    /\ source.feats[1].props # <<>>
    /\ dimensions = XyzDims

\* what xy and coordinate with no optional value do from the present state
XyRun(c) == Run(xy(c.x, c.y, c.idx), sink, out)
CoordinateRun(c) ==
    Run(coordinate(c.x, c.y, None, None, None, None, c.idx), sink, out)

MtTmNotRendered ==
    /\ \A c \in CoordinateCalls :
        Writes(c) = Writes([c EXCEPT !.m = None, !.t = None, !.tm = None])
    /\ last.op = "coordinate" =>
        out = prev \o (IF last.idx > 0 THEN "," ELSE "")
                  \o "[" \o Dec(last.x) \o "," \o Dec(last.y)
                  \o (IF last.z.some THEN "," \o Dec(last.z.v) ELSE "") \o "]"

\* coordinate given m, t and tm values under a dimensionality that has the
\* three channels active
MtTmWitness ==
    /\ dims = CoordDimensions(TRUE, TRUE, TRUE, TRUE)
    /\ last.op = "coordinate"
    /\ last.m = Some(7) /\ last.t = Some(8) /\ last.tm = Some(9)
    /\ last.z.some
    /\ out = prev \o "[-0.5,100.1,10.5]"

----------------------------------------------------------------------------
(* The conversion (SpecGdal) *)

\* the geometry of a source converted under a dimensionality: a closed line
\* of the source's points, each with its z when the Z channel is active
ConvertedGeom(self, d) ==
    [kind |-> "LineString",
     pts |-> [i \in 1..Len(self) |->
                IF d.z THEN self[i] ELSE Coord(self[i].x, self[i].y, None)],
     closed |-> TRUE]

\* what a conversion under d is to return
Converted(c, d) ==
    IF c.failat = 0 THEN OkGeom(ConvertedGeom(c.self, d)) ELSE Err(c.failat)

(* C16: to_gdal returns what to_gdal_ndim with the default dimensionality  *)
(* returns for the same source; to_gdal_ndim(dims) drives one new sink,    *)
(* whose dimensionality is dims from before the first event on, and        *)
(* returns the geometry built from all the events when the drive           *)
(* succeeds, and the error of the event that failed otherwise, never the   *)
(* geometry built up to the failure.                                       *)
ConversionAdapter ==
    /\ conv.pc = "returned" /\ conv.fn = "to_gdal" =>
        conv.ret = Converted(conv, CoordDimensions(FALSE, FALSE, FALSE, FALSE))
    /\ conv.pc = "returned" /\ conv.fn = "to_gdal_ndim" =>
        conv.ret = Converted(conv, conv.arg)
    /\ conv.pc = "returned" /\ conv.ret.ok =>
        conv.ret.geom.closed /\ Len(conv.ret.geom.pts) = Len(conv.self)
    /\ conv.pc = "returned" /\ ~conv.ret.ok =>
        conv.ret.err = conv.failat /\ conv.ret.geom = EmptyGeom
    /\ conv.pc \in {"process_geom", "driven", "returned"} =>
        /\ conv.gdal.dims = conv.ndim
        /\ conv.drives = 1
    /\ conv.pc = "process_geom" /\ conv.pos = 0 => conv.gdal.geom = EmptyGeom
    /\ conv.pc \in {"call", "new", "set_dims"} => conv.drives = 0

\* to_gdal of a source of two points with z values: the geometry returned
\* holds the two points without z
ConversionWitness ==
    /\ conv.pc = "returned"
    /\ conv.fn = "to_gdal"
    /\ Len(conv.self) = 2
    /\ conv.self[1].z.some /\ conv.self[2].z.some
    /\ conv.ret.ok
    /\ conv.ret.geom.pts = <<Coord(-5, 1001, None), Coord(-5, 1001, None)>>

\* to_gdal_ndim whose drive fails at the second point, with one point built:
\* the error is returned
ConversionErrorWitness ==
    /\ conv.pc = "returned"
    /\ conv.fn = "to_gdal_ndim"
    /\ conv.failat = 3
    /\ Len(conv.gdal.geom.pts) = 1
    /\ conv.ret = Err(3)

----------------------------------------------------------------------------
(* Nesting (Spec) *)

RECURSIVE OpenedBy(_)
\* the brackets and braces the begin events of the open structures wrote and
\* their end events will close, outermost first
OpenedBy(stk) ==
    IF stk = <<>> THEN ""
    ELSE (CASE Head(stk).kind = "Point" -> "{"
            [] Head(stk).kind # "Point" /\ Head(stk).tagged -> "{["
            [] OTHER -> "[")
         \o OpenedBy(Tail(stk))

\* the same for the dataset, the feature and the property block
FramingOpen ==
    CASE phase \in {"start", "geom", "done"} -> ""
      [] phase = "dataset" -> "{["
      [] phase = "props" -> "{[{{"
      [] OTHER -> "{[{"

(* C17: at every point of a pass that obeys the grammar, the brackets and  *)
(* braces the output leaves open are those written by the begin events     *)
(* still open, in their order, none was closed out of turn, and at the     *)
(* end of the pass none is open.                                           *)
NestingMirrorsEvents ==
    /\ ~scan.bad
    /\ ~scan.instr
    /\ scan.open = FramingOpen \o OpenedBy(stack)
    /\ Len(scan.open) = Len(FramingOpen) + Len(OpenedBy(stack))
    /\ phase = "done" =>
        LET sc == Scan(out) IN ~sc.bad /\ ~sc.instr /\ sc.open = ""

\* the geometry of a feature open three levels deep: a ring of a polygon of
\* a multipolygon
NestingWitness ==
    /\ phase = "feature_geom"
    /\ Len(stack) = 3
    /\ stack[1].kind = "MultiPolygon"
    /\ stack[3].kind = "LineString" /\ ~stack[3].tagged
    /\ scan.open = "{[{{[[["

\* the geometry the last end event closed
Closed == IF stack = <<>> THEN source.geom[1] ELSE Parent.kids[Len(Parent.kids)]

CompoundEndOps ==
    {"multipoint_end", "linestring_end", "multilinestring_end", "polygon_end",
     "multipolygon_end", "geometrycollection_end"}

\* the last Len(t) characters of s
Last(s, n) == SubSeq(s, Len(s) - n + 1, Len(s))

(* C18: a compound begin followed at once by its end leaves a complete     *)
(* rendering with an empty array: {"type": "<Kind>", "coordinates": []}    *)
(* when tagged, {"type": "GeometryCollection", "geometries": []} for a     *)
(* collection, [] when untagged; it reads as a value with no children.     *)
ZeroChildCompounds ==
    last.op \in CompoundEndOps /\ Closed.kids = <<>> =>
        LET text ==
                CASE Closed.kind = "GeometryCollection" ->
                        "{\"type\": \"GeometryCollection\", \"geometries\": []}"
                  [] Closed.kind # "GeometryCollection" /\ Closed.tagged ->
                        "{\"type\": \"" \o Closed.kind \o "\", \"coordinates\": []}"
                  [] OTHER -> "[]"
            sep == IF last.idx > 0 THEN "," ELSE ""
            r == FromStr(text)
        IN /\ EndsWith(out, sep \o text)
           /\ Len(out) > Len(sep \o text) =>
                Last(SubSeq(out, 1, Len(out) - Len(text)), 1) \in {",", "[", " "}
           /\ r.ok /\ r.v = GeoValue(Closed)
           /\ Closed.kind = "GeometryCollection" => r.v.v["geometries"] = JArr(<<>>)
           /\ Closed.kind # "GeometryCollection" /\ Closed.tagged =>
                r.v.v["coordinates"] = JArr(<<>>)
           /\ ~Closed.tagged => r.v = JArr(<<>>)

\* a multipoint with no point, the second member of a collection
ZeroChildWitness ==
    /\ last.op = "multipoint_end"
    /\ last.idx = 1
    /\ Closed.kind = "MultiPoint" /\ Closed.kids = <<>>
    /\ EndsWith(out, ",{\"type\": \"MultiPoint\", \"coordinates\": []}")

----------------------------------------------------------------------------
(* The dataset name (SpecName) *)

NameHeader == "{\n\"type\": \"FeatureCollection\",\n\"name\": \""

RECURSIVE FirstQuote(_, _)
\* the place of the first quote of w from i on, 0 if it has none
FirstQuote(w, i) ==
    IF i > Len(w) THEN 0
    ELSE IF Ch(w, i) = "\"" THEN i
    ELSE FirstQuote(w, i + 1)

RECURSIVE StringEnd(_, _)
\* the place of the quote that ends the string whose characters start at i:
\* the first quote that no backslash escapes (0 if there is none)
StringEnd(s, i) ==
    IF i > Len(s) THEN 0
    ELSE IF Ch(s, i) = "\\" THEN StringEnd(s, i + 2)
    ELSE IF Ch(s, i) = "\"" THEN i
    ELSE StringEnd(s, i + 1)

\* the name is copied between the quotes as it is
CopiedVerbatim ==
    out = prev \o NameHeader \o last.name.v \o "\",\n\"features\": ["

\* the quoted string of the name member ends at the name's first quote
EndsAtEmbeddedQuote ==
    StringEnd(out, Len(prev) + Len(NameHeader) + 1)
        = Len(prev) + Len(NameHeader) + FirstQuote(last.name.v, 1)

(* C19 as stated: dataset_begin copies a name between quotes as it is,     *)
(* where a property name would have its quotes escaped, and the quoted     *)
(* string of a name that holds a quote ends at that quote, whatever the    *)
(* other characters of the name are.                                       *)
NameVerbatimAnyName ==
    phase = "called" /\ last.name.some =>
        /\ CopiedVerbatim
        /\ HasQuote(last.name.v) => EndsAtEmbeddedQuote

(* C19, amended: dataset_begin copies a name between quotes as it is,      *)
(* where a property name would have its quotes escaped, and the quoted     *)
(* string of a name whose first quote has no backslash right before it     *)
(* ends at that quote.                                                     *)
NameVerbatim ==
    phase = "called" /\ last.name.some =>
        /\ CopiedVerbatim
        /\ HasQuote(last.name.v) =>
            /\ Join(write_str_prop(last.name.v, ""), "")
                    # "\"" \o last.name.v \o "\": \"\""
            /\ LET q == FirstQuote(last.name.v, 1)
               IN q = 1 \/ Ch(last.name.v, q - 1) # "\\" => EndsAtEmbeddedQuote

\* the name a": the member reads "name": "a" and then a stray quote
NameWitness ==
    /\ phase = "called"
    /\ last.name = SomeName("a\"")
    /\ out = "{\n\"type\": \"FeatureCollection\",\n\"name\": \"a\"\",\n\"features\": ["
    /\ EndsAtEmbeddedQuote

====
